---- MODULE Spec2Model ----
(***************************************************************************)
(* Model of the two POST route handlers of learnescrow/sendemailapi:       *)
(*   src/app/api/send-completion-email/route.ts  (validation, optional     *)
(*       PDF rendering through a headless browser, provider send)          *)
(*   src/unnamed/part_000                         (admin + client send)    *)
(* One request is followed from its arrival to its response, one action    *)
(* per awaited step of the handler.  Strings that the code inspects are    *)
(* sequences of one-character strings; the outcomes of the external        *)
(* collaborators (browser, provider) are chosen nondeterministically.      *)
(***************************************************************************)
EXTENDS Naturals, Sequences, FiniteSets, TLC

VARIABLES
    route,        \* which handler serves the request
    body,         \* the request body as req.json() sees it
    pc,           \* position of the handler
    browser,      \* `let browser = null` (0 = null, otherwise the instance id)
    emails,       \* const emails = email.split(",").map(trim)
    attachments,  \* const attachments = []
    pdfError,     \* the error caught by the inner catch
    error,        \* the error caught by the outer catch
    pending,      \* the response a `return` inside try/catch holds while finally runs
    response,     \* the response returned to the client (status 0 = none yet)
    calls,        \* how often each external operation was invoked
    sendLog,      \* the arguments and the result of every resend.emails.send call
    adminResult,  \* part_000: const adminResult
    isDev,        \* process.env.NODE_ENV === "development"
    steps,        \* how each render step ended: "none", "ok" or "threw"
    pdfBuffer,    \* const pdfBuffer = await page.pdf(..), once it resolved
    handlers,     \* concurrent requests: the locals of each invocation of POST
    instances     \* concurrent requests: every browser launched, and who used it

vars == <<route, body, pc, browser, emails, attachments, pdfError, error,
          pending, response, calls, sendLog, adminResult, isDev, steps,
          pdfBuffer, handlers, instances>>

-----------------------------------------------------------------------------
(* Bounds of the model *)

\* longest comma-delimited recipient list (entries) and longest array tried
MaxRecipients == 2

-----------------------------------------------------------------------------
(* JavaScript values and strings *)

Whitespace == {" ", "\t", "\n"}

Undefined == [t |-> "undefined", v |-> <<>>]
JsString(cs) == [t |-> "string", v |-> cs]
JsArray(xs) == [t |-> "array", v |-> xs]
JsNumber(lit) == [t |-> "number", v |-> lit]
JsBoolean(lit) == [t |-> "boolean", v |-> lit]

\* ToBoolean of a value, as `!x` and `if (x)` apply it
Truthy(x) ==
    CASE x.t = "undefined" -> FALSE
      [] x.t = "null" -> FALSE
      [] x.t = "boolean" -> x.v = "true"
      [] x.t = "number" -> x.v # "0"
      [] x.t = "string" -> x.v # <<>>
      [] OTHER -> TRUE

\* the text of a character sequence
RECURSIVE ToStr(_)
ToStr(cs) == IF cs = <<>> THEN "" ELSE cs[1] \o ToStr(Tail(cs))

\* String.prototype.split(",")
RECURSIVE SplitFrom(_, _, _)
SplitFrom(s, i, cur) ==
    IF i > Len(s) THEN <<cur>>
    ELSE IF s[i] = "," THEN <<cur>> \o SplitFrom(s, i + 1, <<>>)
    ELSE SplitFrom(s, i + 1, Append(cur, s[i]))

split(s) == SplitFrom(s, 1, <<>>)

\* String.prototype.trim()
RECURSIVE TrimStart(_)
TrimStart(s) ==
    IF s # <<>> /\ s[1] \in Whitespace THEN TrimStart(Tail(s)) ELSE s

RECURSIVE TrimEnd(_)
TrimEnd(s) ==
    IF s # <<>> /\ s[Len(s)] \in Whitespace
    THEN TrimEnd(SubSeq(s, 1, Len(s) - 1)) ELSE s

trim(s) == TrimEnd(TrimStart(s))

\* Array.prototype.map / filter
Map(Op(_), xs) == [i \in 1..Len(xs) |-> Op(xs[i])]

\* Array.prototype.join(sep)
RECURSIVE join(_, _)
join(xs, sep) ==
    IF xs = <<>> THEN <<>>
    ELSE IF Len(xs) = 1 THEN xs[1]
    ELSE xs[1] \o sep \o join(Tail(xs), sep)

\* const emailRegex = /^[^\s@]+@[^\s@]+\.[^\s@]+$/ run as an automaton:
\* 0 start, 1 in local part, 2 after "@", 3 in domain, 4 after ".", 5 in tld
RegexStep(q, c) ==
    (IF c \notin Whitespace /\ c # "@"
     THEN (CASE q = 0 -> {1} [] q = 1 -> {1} [] q = 2 -> {3}
             [] q = 3 -> {3} [] q = 4 -> {5} [] q = 5 -> {5} [] OTHER -> {})
     ELSE {})
    \cup (IF c = "@" /\ q = 1 THEN {2} ELSE {})
    \cup (IF c = "." /\ q = 3 THEN {4} ELSE {})

RECURSIVE RegexRun(_, _)
RegexRun(qs, s) ==
    IF s = <<>> THEN qs
    ELSE RegexRun(UNION {RegexStep(q, s[1]) : q \in qs}, Tail(s))

emailRegexTest(e) == 5 \in RegexRun({0}, e)

\* faulty variant: only the first invalid entry is kept (find in place of filter)
invalidEmailsFirstOnly(es) ==
    LET bad == SelectSeq(es, LAMBDA e : ~emailRegexTest(e))
    IN  IF bad = <<>> THEN <<>> ELSE <<bad[1]>>

\* const invalidEmails = emails.filter((e) => !emailRegex.test(e))
invalidEmailsOf(es) == SelectSeq(es, LAMBDA e : ~emailRegexTest(e))

-----------------------------------------------------------------------------
(* PDF buffer checks, file name and attachment encoding *)

\* the bytes of "%PDF"
PdfMagic == <<37, 80, 68, 70>>

\* pdfBuffer.slice(0, 4)
slice4(buf) == SubSeq(buf, 1, IF Len(buf) < 4 THEN Len(buf) ELSE 4)

\* faulty variant: only the first three bytes are compared
pdfHeaderBadThreeBytes(buf) ==
    SubSeq(buf, 1, IF Len(buf) < 3 THEN Len(buf) ELSE 3) # <<37, 80, 68>>

\* Buffer.from(pdfBuffer.slice(0, 4)).toString('utf8') !== '%PDF'
pdfHeaderBad(buf) == slice4(buf) # PdfMagic

Base64Alphabet ==
    <<"A","B","C","D","E","F","G","H","I","J","K","L","M","N","O","P",
      "Q","R","S","T","U","V","W","X","Y","Z","a","b","c","d","e","f",
      "g","h","i","j","k","l","m","n","o","p","q","r","s","t","u","v",
      "w","x","y","z","0","1","2","3","4","5","6","7","8","9","+","/">>

B64(n) == Base64Alphabet[n + 1]

\* faulty variant: the last group is not padded with "="
RECURSIVE toBase64Unpadded(_)
toBase64Unpadded(buf) ==
    IF Len(buf) = 0 THEN ""
    ELSE IF Len(buf) = 1 THEN
        B64(buf[1] \div 4) \o B64((buf[1] % 4) * 16)
    ELSE IF Len(buf) = 2 THEN
        B64(buf[1] \div 4) \o B64((buf[1] % 4) * 16 + buf[2] \div 16)
            \o B64((buf[2] % 16) * 4)
    ELSE
        B64(buf[1] \div 4) \o B64((buf[1] % 4) * 16 + buf[2] \div 16)
            \o B64((buf[2] % 16) * 4 + buf[3] \div 64) \o B64(buf[3] % 64)
            \o toBase64Unpadded(SubSeq(buf, 4, Len(buf)))

\* Buffer.from(pdfBuffer).toString('base64')
RECURSIVE toBase64(_)
toBase64(buf) ==
    IF Len(buf) = 0 THEN ""
    ELSE IF Len(buf) = 1 THEN
        B64(buf[1] \div 4) \o B64((buf[1] % 4) * 16) \o "=="
    ELSE IF Len(buf) = 2 THEN
        B64(buf[1] \div 4) \o B64((buf[1] % 4) * 16 + buf[2] \div 16)
            \o B64((buf[2] % 16) * 4) \o "="
    ELSE
        B64(buf[1] \div 4) \o B64((buf[1] % 4) * 16 + buf[2] \div 16)
            \o B64((buf[2] % 16) * 4 + buf[3] \div 64) \o B64(buf[3] % 64)
            \o toBase64(SubSeq(buf, 4, Len(buf)))

Letters ==
    {"a","b","c","d","e","f","g","h","i","j","k","l","m","n","o","p","q",
     "r","s","t","u","v","w","x","y","z",
     "A","B","C","D","E","F","G","H","I","J","K","L","M","N","O","P","Q",
     "R","S","T","U","V","W","X","Y","Z"}
Digits == {"0","1","2","3","4","5","6","7","8","9"}

\* .replace(/[^a-z0-9\s-]/gi, "")
stripUnsafe(s) ==
    SelectSeq(s, LAMBDA c : c \in Letters \cup Digits \cup Whitespace \cup {"-"})

\* faulty variant: every whitespace character becomes its own underscore
collapseEachWhitespace(s) ==
    [i \in 1..Len(s) |-> IF s[i] \in Whitespace THEN "_" ELSE s[i]]

\* .replace(/\s+/g, "_")
RECURSIVE collapseWhitespace(_)
collapseWhitespace(s) ==
    IF s = <<>> THEN <<>>
    ELSE IF s[1] \in Whitespace
         THEN <<"_">> \o collapseWhitespace(TrimStart(s))
         ELSE <<s[1]>> \o collapseWhitespace(Tail(s))

\* .substring(0, 50)
FilenameLimit == 50
substring0(s, n) == SubSeq(s, 1, IF Len(s) < n THEN Len(s) ELSE n)

\* const safeFilename = subject.replace(..).replace(..).substring(0, 50) || "document"
safeFilename(subject) ==
    LET stem == substring0(collapseWhitespace(stripUnsafe(subject)), FilenameLimit)
    IN  IF stem = <<>> THEN "document" ELSE ToStr(stem)

-----------------------------------------------------------------------------
(* The requests tried *)

AddrA == <<"a", "@", "b", ".", "c">>
AddrD == <<"d", "@", "e", ".", "f">>

\* the entries a comma-delimited recipient string is made of
Entries ==
    { AddrA,
      <<" ">> \o AddrD \o <<" ">>,          \* valid once trimmed
      <<"a", "@", "b">>,                    \* no ".tld"
      <<>>,                                 \* empty entry
      <<"a", " ", "@", "b", ".", "c">>,     \* whitespace inside
      <<"n", "o", "t", "-", "a", "n", "-", "e", "m", "a", "i", "l">> }

SeqsUpTo(S, n) == UNION {[1..k -> S] : k \in 1..n}

RecipientStrings == {join(es, <<",">>) : es \in SeqsUpTo(Entries, MaxRecipients)}

RecipientArrays == {<<>>} \cup SeqsUpTo({AddrA, AddrD}, MaxRecipients)

EmailValues ==
    {Undefined} \cup {JsString(s) : s \in RecipientStrings}
                \cup {JsArray(a) : a \in RecipientArrays}

SubjectValues ==
    { Undefined, JsString(<<>>), JsString(<<"D", "o", "n", "e">>),
      JsString(<<"Q", "3", " ", "\t", "!">>), JsString(<<"!">>), JsNumber("5") }

HtmlValues == {Undefined, JsString(<<>>), JsString(<<"<", "p", ">">>)}

GeneratePdfValues ==
    { Undefined, JsBoolean("false"), JsBoolean("true"), JsNumber("1"),
      JsNumber("0") }

NameValues == {Undefined, JsString(<<>>), JsString(<<"n">>)}

ClientEmailValues == {Undefined, JsString(<<>>), JsString(AddrA)}

\* what `await req.json()` yields: a rejection, null, a non-object JSON value
\* (every destructured field undefined), or an object with the fields given
NoFields ==
    [email |-> Undefined, subject |-> Undefined, html |-> Undefined,
     generatePdf |-> Undefined, name |-> Undefined, projectName |-> Undefined]

OtherBodies ==
    {[kind |-> k, f |-> NoFields] : k \in {"unparseable", "null", "scalar"}}

CompletionBodies ==
    OtherBodies \cup
    {[kind |-> "object",
      f |-> [NoFields EXCEPT !.email = e, !.subject = s, !.html = h,
                             !.generatePdf = g]] :
        e \in EmailValues, s \in SubjectValues, h \in HtmlValues,
        g \in GeneratePdfValues}

ProjectBodies ==
    OtherBodies \cup
    {[kind |-> "object",
      f |-> [NoFields EXCEPT !.email = e, !.name = n, !.projectName = q]] :
        e \in ClientEmailValues, n \in NameValues, q \in NameValues}

\* what page.pdf() may resolve to
PdfBuffers ==
    { <<>>,
      <<37, 80, 68>>,
      <<37, 80, 68, 70>>,
      <<37, 80, 68, 70, 45>>,
      <<37, 80, 68, 70, 45, 49>>,
      <<37, 80, 68, 71, 45>>,
      <<60, 104, 116, 109, 108>> }

\* what an external call may throw
Thrown(msg) == {[thrown |-> TRUE, isError |-> TRUE, message |-> msg],
                [thrown |-> TRUE, isError |-> FALSE, message |-> ""]}

\* what resend.emails.send may resolve to
ProviderErrors == {"validation_error", "rate_limit_exceeded"}
SendResults ==
    {[data |-> "email_1", error |-> "null"]}
    \cup {[data |-> "null", error |-> e] : e \in ProviderErrors}

JSONstringify(e) == "{\"name\":\"" \o e \o "\"}"

NoError == [thrown |-> FALSE, isError |-> FALSE, message |-> ""]
NoSteps == [launch |-> "none", newPage |-> "none", setContent |-> "none",
            pdf |-> "none"]
NoResponse == [status |-> 0, headers |-> {}, json |-> <<>>]
NoCalls == [launch |-> 0, newPage |-> 0, setContent |-> 0, pdf |-> 0,
            close |-> 0, send |-> 0]
NoResult == [data |-> "null", error |-> "null"]

Cors == {<<"Access-Control-Allow-Origin", "*">>}

\* no concurrent invocation is under way
NoHandlers == <<>>

Init ==
    /\ route \in {"completion", "project", "options"}
    /\ body \in (CASE route = "completion" -> CompletionBodies
                   [] route = "project" -> ProjectBodies
                   [] OTHER -> {[kind |-> "scalar", f |-> NoFields]})
    /\ isDev \in BOOLEAN
    /\ pc = "start"
    /\ browser = 0
    /\ emails = <<>>
    /\ attachments = <<>>
    /\ pdfError = NoError
    /\ error = NoError
    /\ pending = NoResponse
    /\ response = NoResponse
    /\ calls = NoCalls
    /\ sendLog = <<>>
    /\ adminResult = NoResult
    /\ steps = NoSteps
    /\ pdfBuffer = <<>>
    /\ handlers = NoHandlers
    /\ instances = <<>>

-----------------------------------------------------------------------------
(* send-completion-email/route.ts: POST *)

Err(msg) == [thrown |-> TRUE, isError |-> TRUE, message |-> msg]

\* NextResponse.json(json, { status, headers })
Respond(status, headers, json) ==
    [status |-> status, headers |-> headers, json |-> json]

\* JSON.stringify leaves out a key whose value is undefined
Field(k, x) == IF x.t = "undefined" THEN <<>> ELSE k :> x

Thrown_(e) == [outcome |-> "throw", error |-> e, emails |-> <<>>,
               response |-> NoResponse]
Returned(r) == [outcome |-> "return", error |-> NoError, emails |-> <<>>,
                response |-> r]
Passed(es) == [outcome |-> "pass", error |-> NoError, emails |-> es,
               response |-> NoResponse]

\* lines 55-88: parse the body, check the required fields and the addresses
validate(b) ==
    IF b.kind = "unparseable"
    THEN Thrown_(Err("Unexpected token in JSON"))
    ELSE IF b.kind = "null"
    THEN Thrown_(Err("Cannot destructure property 'email' of 'body' as it is null."))
    ELSE IF ~Truthy(b.f.email) \/ ~Truthy(b.f.subject) \/ ~Truthy(b.f.html)
    THEN Returned(Respond(400, Cors,
            [error |-> "Missing required fields",
             details |-> "email, subject, and html are required"]))
    ELSE IF b.f.email.t # "string"
    THEN Thrown_(Err("email.split is not a function"))
    ELSE LET es == Map(trim, split(b.f.email.v))
             invalidEmails == invalidEmailsOf(es)
         IN  IF Len(invalidEmails) > 0
             THEN Returned(Respond(400, Cors,
                    [error |-> "Invalid email format",
                     details |-> "Invalid emails: "
                                 \o ToStr(join(invalidEmails, <<",", " ">>))]))
             ELSE Passed(es)

\* faulty variant: the browser is launched before the body is validated
POST_validateAfterLaunch ==
    /\ route = "completion" /\ pc = "start"
    /\ calls' = [calls EXCEPT !.launch = @ + 1]
    /\ browser' = 1
    /\ steps' = [steps EXCEPT !.launch = "ok"]
    /\ LET r == validate(body)
       IN  /\ emails' = r.emails
           /\ error' = r.error
           /\ response' = r.response
           /\ pc' = CASE r.outcome = "throw" -> "outerCatch"
                      [] r.outcome = "return" -> "done"
                      [] OTHER -> IF Truthy(body.f.generatePdf)
                                  THEN "newPage" ELSE "send"
    /\ UNCHANGED <<handlers, instances,
                   route, body, attachments, pdfError, pending, sendLog,
                   adminResult, isDev, pdfBuffer>>

POST_validate ==
    /\ route = "completion" /\ pc = "start"
    /\ LET r == validate(body)
       IN  /\ emails' = r.emails
           /\ error' = r.error
           /\ response' = r.response
           /\ pc' = CASE r.outcome = "throw" -> "outerCatch"
                      [] r.outcome = "return" -> "done"
                      [] OTHER -> IF Truthy(body.f.generatePdf)
                                  THEN "launch" ELSE "send"
    /\ UNCHANGED <<handlers, instances,
                   route, body, browser, attachments, pdfError, pending,
                   calls, sendLog, adminResult, isDev, steps,
                   pdfBuffer>>

\* line 101: browser = await getBrowser()
POST_getBrowser ==
    /\ route = "completion" /\ pc = "launch"
    /\ calls' = [calls EXCEPT !.launch = @ + 1]
    /\ \E ok \in BOOLEAN, e \in Thrown("Failed to launch the browser process") :
          IF ok
          THEN /\ browser' = 1 /\ pc' = "newPage" /\ pdfError' = pdfError
               /\ steps' = [steps EXCEPT !.launch = "ok"]
          ELSE /\ browser' = browser /\ pc' = "pdfCatch" /\ pdfError' = e
               /\ steps' = [steps EXCEPT !.launch = "threw"]
    /\ UNCHANGED <<handlers, instances,
                   route, body, emails, attachments, error, pending, response,
                   sendLog, adminResult, isDev, pdfBuffer>>

\* lines 105-112: browser.newPage() and page.setViewport(..)
POST_newPage ==
    /\ route = "completion" /\ pc = "newPage"
    /\ calls' = [calls EXCEPT !.newPage = @ + 1]
    /\ \E ok \in BOOLEAN, e \in Thrown("Protocol error: Target closed") :
          IF ok
          THEN /\ pc' = "setContent" /\ pdfError' = pdfError
               /\ steps' = [steps EXCEPT !.newPage = "ok"]
          ELSE /\ pc' = "pdfCatch" /\ pdfError' = e
               /\ steps' = [steps EXCEPT !.newPage = "threw"]
    /\ UNCHANGED <<handlers, instances,
                   route, body, browser, emails, attachments, error, pending,
                   response, sendLog, adminResult, isDev, pdfBuffer>>

\* lines 173-181: page.setContent(styledHtml, { timeout: 30000 })
POST_setContent ==
    /\ route = "completion" /\ pc = "setContent"
    /\ calls' = [calls EXCEPT !.setContent = @ + 1]
    /\ \E ok \in BOOLEAN, e \in Thrown("Navigation timeout of 30000 ms exceeded") :
          IF ok
          THEN /\ pc' = "pdf" /\ pdfError' = pdfError
               /\ steps' = [steps EXCEPT !.setContent = "ok"]
          ELSE /\ pc' = "pdfCatch" /\ pdfError' = e
               /\ steps' = [steps EXCEPT !.setContent = "threw"]
    /\ UNCHANGED <<handlers, instances,
                   route, body, browser, emails, attachments, error, pending,
                   response, sendLog, adminResult, isDev, pdfBuffer>>

\* lines 200-223: the checks of the buffer and the attachment made of it
checkAndAttach(buf, subject) ==
    IF Len(buf) = 0
    THEN [ok |-> FALSE, err |-> Err("Generated PDF buffer is empty"), att |-> <<>>]
    ELSE IF pdfHeaderBad(buf)
    THEN [ok |-> FALSE, err |-> Err("Generated buffer is not a valid PDF"),
          att |-> <<>>]
    ELSE IF subject.t # "string"
    THEN [ok |-> FALSE, err |-> Err("subject.replace is not a function"),
          att |-> <<>>]
    ELSE [ok |-> TRUE, err |-> NoError,
          att |-> <<[filename |-> safeFilename(subject.v) \o ".pdf",
                     content |-> toBase64(buf)]>>]

\* lines 184-225: page.pdf({ timeout: 60000 }), then the checks
POST_pdf ==
    /\ route = "completion" /\ pc = "pdf"
    /\ calls' = [calls EXCEPT !.pdf = @ + 1]
    /\ \E ok \in BOOLEAN, e \in Thrown("Timed out after waiting 60000ms"),
          buf \in PdfBuffers :
          LET r == checkAndAttach(buf, body.f.subject)
          IN  /\ steps' = [steps EXCEPT !.pdf = IF ok THEN "ok" ELSE "threw"]
              /\ pdfBuffer' = IF ok THEN buf ELSE pdfBuffer
              /\ IF ok /\ r.ok
                 THEN /\ attachments' = attachments \o r.att
                      /\ pc' = "finally" /\ pdfError' = pdfError
                 ELSE /\ attachments' = attachments
                      /\ pc' = "pdfCatch"
                      /\ pdfError' = IF ok THEN r.err ELSE e
    /\ UNCHANGED <<handlers, instances,
                   route, body, browser, emails, error, pending, response,
                   sendLog, adminResult, isDev>>

\* if (browser) { await browser.close().catch(console.error) }
closeIfOpen(b, c) == IF b # 0 THEN [c EXCEPT !.close = @ + 1] ELSE c

\* lines 227-244: the inner catch
POST_pdfCatch ==
    /\ route = "completion" /\ pc = "pdfCatch"
    /\ calls' = closeIfOpen(browser, calls)
    /\ pending' = Respond(500, Cors,
            [error |-> "Failed to generate PDF",
             details |-> IF pdfError.isError THEN pdfError.message
                         ELSE "Unknown PDF error"])
    /\ pc' = "finally"
    /\ UNCHANGED <<handlers, instances,
                   route, body, browser, emails, attachments, pdfError, error,
                   response, sendLog, adminResult, isDev, steps,
                   pdfBuffer>>

\* faulty variant: the finally block does not close the browser
POST_finallyWithoutClose ==
    /\ route = "completion" /\ pc = "finally"
    /\ IF pending.status # 0
       THEN response' = pending /\ pc' = "done"
       ELSE response' = response /\ pc' = "send"
    /\ UNCHANGED <<handlers, instances,
                   route, body, browser, emails, attachments, pdfError, error,
                   pending, calls, sendLog, adminResult, isDev, steps,
                   pdfBuffer>>

\* lines 245-251: the finally block, then the held return if there is one
POST_finally ==
    /\ route = "completion" /\ pc = "finally"
    /\ calls' = closeIfOpen(browser, calls)
    /\ IF pending.status # 0
       THEN response' = pending /\ pc' = "done"
       ELSE response' = response /\ pc' = "send"
    /\ UNCHANGED <<handlers, instances,
                   route, body, browser, emails, attachments, pdfError, error,
                   pending, sendLog, adminResult, isDev, steps,
                   pdfBuffer>>

\* the record the model keeps of one provider call
SendRecord(to, atts, ok, result) ==
    [to |-> to, attachments |-> atts,
     result |-> IF ok THEN result ELSE NoResult, threw |-> ~ok,
     launched |-> calls.launch, closed |-> calls.close,
     open |-> browser # 0 /\ calls.close = 0]

\* faulty variant: the array is passed even when it is empty
attachmentsArgAlways(atts) == JsArray(atts)

\* attachments: attachments.length > 0 ? attachments : undefined
attachmentsArg(atts) == IF Len(atts) > 0 THEN JsArray(atts) ELSE Undefined

\* lines 277-289: the success response
successResponse(generatePdf, emailResult) ==
    Respond(200, Cors,
        [success |-> TRUE, emailSent |-> TRUE,
         message |-> "Email sent successfully"]
        @@ Field("pdfAttached", generatePdf)
        @@ (IF emailResult.data = "null" THEN <<>>
            ELSE "emailId" :> emailResult.data))

\* lines 262-289: resend.emails.send(..), the check of its result, the response
POST_send ==
    /\ route = "completion" /\ pc = "send"
    /\ calls' = [calls EXCEPT !.send = @ + 1]
    /\ \E ok \in BOOLEAN, e \in Thrown("fetch failed"),
          emailResult \in SendResults :
          /\ sendLog' = Append(sendLog,
                SendRecord(JsArray(emails), attachmentsArg(attachments),
                           ok, emailResult))
          /\ IF ok /\ emailResult.error = "null"
             THEN /\ response' = successResponse(body.f.generatePdf, emailResult)
                  /\ pc' = "done" /\ error' = error
             ELSE /\ response' = response
                  /\ pc' = "outerCatch"
                  /\ error' = IF ok
                              THEN Err("Resend API Error: "
                                       \o JSONstringify(emailResult.error))
                              ELSE e
    /\ UNCHANGED <<handlers, instances,
                   route, body, browser, emails, attachments, pdfError,
                   pending, adminResult, isDev, steps,
                   pdfBuffer>>

\* faulty variant: a failed send is tried once more before giving up
POST_outerCatchRetry ==
    /\ route = "completion" /\ pc = "outerCatch"
    /\ calls' = closeIfOpen(browser, calls)
    /\ IF calls.send = 1
       THEN response' = response /\ pc' = "send"
       ELSE /\ response' = Respond(500, Cors,
                    [error |-> "Email send failed",
                     details |-> IF error.isError THEN error.message
                                 ELSE "Unknown error occurred"])
            /\ pc' = "done"
    /\ UNCHANGED <<handlers, instances,
                   route, body, browser, emails, attachments, pdfError, error,
                   pending, sendLog, adminResult, isDev, steps,
                   pdfBuffer>>

\* lines 291-313: the outer catch
POST_outerCatch ==
    /\ route = "completion" /\ pc = "outerCatch"
    /\ calls' = closeIfOpen(browser, calls)
    /\ response' = Respond(500, Cors,
            [error |-> "Email send failed",
             details |-> IF error.isError THEN error.message
                         ELSE "Unknown error occurred"]
            @@ (IF isDev /\ error.isError THEN "stack" :> "Error: stack"
                ELSE <<>>))
    /\ pc' = "done"
    /\ UNCHANGED <<handlers, instances,
                   route, body, browser, emails, attachments, pdfError, error,
                   pending, sendLog, adminResult, isDev, steps,
                   pdfBuffer>>

\* lines 317-330: OPTIONS
OPTIONS ==
    /\ route = "options" /\ pc = "start"
    /\ response' = Respond(200,
            { <<"Access-Control-Allow-Origin", "*">>,
              <<"Access-Control-Allow-Methods", "POST, OPTIONS">>,
              <<"Access-Control-Allow-Headers", "Content-Type, Authorization">>,
              <<"Access-Control-Max-Age", "86400">> },
            <<>>)
    /\ pc' = "done"
    /\ UNCHANGED <<handlers, instances,
                   route, body, browser, emails, attachments, pdfError, error,
                   pending, calls, sendLog, adminResult, isDev, steps,
                   pdfBuffer>>

-----------------------------------------------------------------------------
(* unnamed/part_000: POST (project completed: one mail to the admin, one to
   the client) *)

AdminAddress ==
    <<"g","a","n","e","s","h","w","e","b","b","y","@","g","m","a","i","l",
      ".","c","o","m">>

\* lines 8-12: parse the body and check the required fields
projectValidate(b) ==
    IF b.kind = "unparseable"
    THEN Thrown_(Err("Unexpected token in JSON"))
    ELSE IF b.kind = "null"
    THEN Thrown_(Err("Cannot destructure property 'name' of null"))
    ELSE IF ~Truthy(b.f.name) \/ ~Truthy(b.f.email) \/ ~Truthy(b.f.projectName)
    THEN Returned(Respond(400, {}, [error |-> "Missing fields"]))
    ELSE Passed(<<>>)

Project_validate ==
    /\ route = "project" /\ pc = "start"
    /\ LET r == projectValidate(body)
       IN  /\ error' = r.error
           /\ response' = r.response
           /\ pc' = CASE r.outcome = "throw" -> "catch"
                      [] r.outcome = "return" -> "done"
                      [] OTHER -> "sendAdmin"
    /\ UNCHANGED <<handlers, instances,
                   route, body, browser, emails, attachments, pdfError,
                   pending, calls, sendLog, adminResult, isDev, steps,
                   pdfBuffer>>

\* lines 17-29: the mail to the admin
Project_sendAdmin ==
    /\ route = "project" /\ pc = "sendAdmin"
    /\ calls' = [calls EXCEPT !.send = @ + 1]
    /\ \E ok \in BOOLEAN, e \in Thrown("fetch failed"), result \in SendResults :
          /\ sendLog' = Append(sendLog,
                SendRecord(JsString(AdminAddress), Undefined, ok, result))
          /\ IF ok
             THEN adminResult' = result /\ pc' = "sendClient" /\ error' = error
             ELSE adminResult' = adminResult /\ pc' = "catch" /\ error' = e
    /\ UNCHANGED <<handlers, instances,
                   route, body, browser, emails, attachments, pdfError,
                   pending, response, isDev, steps, pdfBuffer>>

\* lines 32-45: the mail to the client, then the response
Project_sendClient ==
    /\ route = "project" /\ pc = "sendClient"
    /\ calls' = [calls EXCEPT !.send = @ + 1]
    /\ \E ok \in BOOLEAN, e \in Thrown("fetch failed"),
          clientResult \in SendResults :
          /\ sendLog' = Append(sendLog,
                SendRecord(body.f.email, Undefined, ok, clientResult))
          /\ IF ok
             THEN /\ response' = Respond(200, {},
                        [success |-> TRUE, adminResult |-> adminResult,
                         clientResult |-> clientResult])
                  /\ pc' = "done" /\ error' = error
             ELSE response' = response /\ pc' = "catch" /\ error' = e
    /\ UNCHANGED <<handlers, instances,
                   route, body, browser, emails, attachments, pdfError,
                   pending, adminResult, isDev, steps,
                   pdfBuffer>>

\* lines 46-54: the catch
Project_catch ==
    /\ route = "project" /\ pc = "catch"
    /\ response' = Respond(500, {},
            [error |-> IF error.isError THEN error.message
                       ELSE "Unknown error"])
    /\ pc' = "done"
    /\ UNCHANGED <<handlers, instances,
                   route, body, browser, emails, attachments, pdfError, error,
                   pending, calls, sendLog, adminResult, isDev, steps,
                   pdfBuffer>>

-----------------------------------------------------------------------------

Next ==
    \/ POST_validate
    \/ POST_getBrowser
    \/ POST_newPage
    \/ POST_setContent
    \/ POST_pdf
    \/ POST_pdfCatch
    \/ POST_finally
    \/ POST_send
    \/ POST_outerCatch
    \/ OPTIONS
    \/ Project_validate
    \/ Project_sendAdmin
    \/ Project_sendClient
    \/ Project_catch

Spec == Init /\ [][Next]_vars

-----------------------------------------------------------------------------
(* Properties *)

Completion == route = "completion"
Returned200 == response.status = 200
RenderCalls == calls.launch + calls.newPage + calls.setContent + calls.pdf

\* a browser instance was launched for the request
BrowserLaunched == steps.launch = "ok"

\* the buffer does not start with the four bytes of "%PDF"
LacksMagic(buf) == Len(buf) < 4 \/ \E i \in 1..4 : buf[i] # PdfMagic[i]

\* a render step failed: one of the awaited steps threw, or the export
\* resolved to an empty buffer or to one that is no PDF
RenderFailed ==
    \/ \E k \in DOMAIN steps : steps[k] = "threw"
    \/ steps.pdf = "ok" /\ (Len(pdfBuffer) = 0 \/ LacksMagic(pdfBuffer))

\* C1: on every path of the send-completion-email POST on which a browser
\* was launched, browser.close has been invoked exactly once when the
\* response is returned.
C1_ClosedExactlyOnce ==
    (Completion /\ pc = "done" /\ BrowserLaunched) => calls.close = 1

\* C2: no renderer leak: whenever the send-completion-email POST has
\* returned a response, a browser launched for the request has had close
\* invoked on it at least once.
C2_NoRendererLeak ==
    (Completion /\ response.status # 0 /\ BrowserLaunched) => calls.close >= 1

\* a 200 was returned after a render and a send that both succeeded
C2_Witness ==
    /\ Completion /\ Returned200 /\ BrowserLaunched
    /\ calls.send = 1 /\ calls.close = 1

\* C3: when generatePdf is set and a render step fails, the provider send
\* is never invoked for the request and the response is 500 "Failed to
\* generate PDF".
C3_RenderFailureAbortsDispatch ==
    (Completion /\ RenderFailed) =>
        /\ calls.send = 0
        /\ pc = "done" =>
              /\ response.status = 500
              /\ response.json.error = "Failed to generate PDF"

\* the export resolved to a buffer that is no PDF and the 500 was returned
C3_Witness ==
    /\ Completion /\ pc = "done" /\ steps.pdf = "ok"
    /\ pdfBuffer = <<37, 80, 68, 71, 45>>
    /\ response.status = 500

\* C4: a request rejected by validation (400) has caused neither a browser
\* launch nor a provider send, in both POST handlers.
C4_ValidationHasNoSideEffects ==
    response.status = 400 => calls = NoCalls /\ sendLog = <<>> /\ browser = 0

\* a request with an invalid address was rejected
C4_Witness ==
    /\ Completion /\ response.status = 400
    /\ response.json.error = "Invalid email format"

\* the field is absent or empty
Absent(x) == x.t = "undefined" \/ (x.t = "string" /\ x.v = <<>>)

\* subject, html or the recipients are absent or empty; a body that is no
\* JSON object lacks them all
LacksRequiredField(b) ==
    \/ b.kind # "object"
    \/ Absent(b.f.email) \/ Absent(b.f.subject) \/ Absent(b.f.html)

\* C5: for every payload in which subject, html or the recipients field is
\* absent or empty, a body that is no JSON object included, the response of
\* the send-completion-email POST is 400, never 200 and never 500.
C5_MissingFieldGives400 ==
    (Completion /\ pc = "done" /\ LacksRequiredField(body)) =>
        response.status = 400

\* the field holds a non-empty string
Present(x) == x.t = "string" /\ x.v # <<>>

\* The entries of a comma-delimited string, read off the positions of its
\* commas, each without the whitespace around it.
CommaPositions(s) == {i \in 1..Len(s) : s[i] = ","}

Boundary(s, k) ==
    IF k = 0 THEN 0
    ELSE IF k > Cardinality(CommaPositions(s)) THEN Len(s) + 1
    ELSE CHOOSE i \in CommaPositions(s) :
            Cardinality({j \in CommaPositions(s) : j < i}) = k - 1

Stripped(e) ==
    LET inked == {i \in 1..Len(e) : e[i] \notin Whitespace}
    IN  IF inked = {} THEN <<>>
        ELSE SubSeq(e, CHOOSE i \in inked : \A j \in inked : i <= j,
                       CHOOSE i \in inked : \A j \in inked : j <= i)

EntryList(s) ==
    [k \in 1..(Cardinality(CommaPositions(s)) + 1) |->
        Stripped(SubSeq(s, Boundary(s, k - 1) + 1, Boundary(s, k) - 1))]

\* local@domain.tld: one "@" with something before it, a "." after it with
\* something on both sides, and no whitespace
IsAddress(e) ==
    \E i, j \in 1..Len(e) :
        /\ e[i] = "@" /\ e[j] = "."
        /\ 1 < i /\ i + 1 < j /\ j < Len(e)
        /\ \A k \in 1..Len(e) : e[k] \notin Whitespace /\ (k # i => e[k] # "@")

InvalidEntries(s) == SelectSeq(EntryList(s), LAMBDA e : ~IsAddress(e))

\* a request object with a recipient string, a subject and an html body
WellFormed(b) ==
    /\ b.kind = "object"
    /\ Present(b.f.email) /\ Present(b.f.subject) /\ Present(b.f.html)

\* C6: for a comma-delimited recipient string with at least one trimmed
\* entry that is no local@domain.tld (subject and html present), the
\* response is 400 "Invalid email format" and its details lists every
\* invalid trimmed entry, in input order, and no valid one.
C6_EveryInvalidEntryListed ==
    (Completion /\ pc = "done" /\ WellFormed(body)
        /\ InvalidEntries(body.f.email.v) # <<>>) =>
        /\ response.status = 400
        /\ response.json.error = "Invalid email format"
        /\ response.json.details =
              "Invalid emails: "
              \o ToStr(join(InvalidEntries(body.f.email.v), <<",", " ">>))

\* a string of two invalid entries was rejected, both named, in order
C6_Witness ==
    /\ Completion /\ pc = "done" /\ WellFormed(body)
    /\ Len(InvalidEntries(body.f.email.v)) = 2
    /\ response.status = 400
    /\ response.json.details = "Invalid emails: not-an-email, a@b"

\* a valid entry beside an invalid one is not listed
C6_WitnessMixed ==
    /\ Completion /\ pc = "done" /\ WellFormed(body)
    /\ Len(EntryList(body.f.email.v)) = 2
    /\ response.status = 400
    /\ response.json.details = "Invalid emails: a@b"

\* C7: for a request whose recipients are all valid, whose subject and
\* html are non-empty and whose generatePdf is false, no rendering step is
\* invoked and the provider send is called with no attachment.
C7_NoRenderWithoutFlag ==
    (Completion /\ WellFormed(body)
        /\ InvalidEntries(body.f.email.v) = <<>>
        /\ body.f.generatePdf = JsBoolean("false")) =>
        /\ RenderCalls = 0
        /\ \A i \in 1..Len(sendLog) : sendLog[i].attachments.t = "undefined"
        /\ pc = "done" => Len(sendLog) = 1

\* such a request was sent and answered 200
C7_Witness ==
    /\ Completion /\ WellFormed(body) /\ Returned200
    /\ body.f.generatePdf = JsBoolean("false")
    /\ Len(sendLog) = 1 /\ sendLog[1].attachments.t = "undefined"

\* C8: in every POST handler, whenever a provider send returns a result
\* carrying a provider-level error (without throwing), the response is 500
\* and never a 200 success.
C8_ProviderErrorGives500 ==
    (pc = "done" /\ \E i \in 1..Len(sendLog) :
                        ~sendLog[i].threw /\ sendLog[i].result.error # "null")
        => response.status = 500

\* the request gives its recipients as a non-empty array of valid addresses
ValidArray(b) ==
    /\ b.kind = "object" /\ b.f.email.t = "array" /\ b.f.email.v # <<>>
    /\ \A i \in 1..Len(b.f.email.v) : IsAddress(b.f.email.v[i])
    /\ Present(b.f.subject) /\ Present(b.f.html)

\* the same request with the addresses joined by commas in one string
Joined(b) == [b EXCEPT !.f.email = JsString(join(b.f.email.v, <<",">>))]

\* C9: recipients given as an array of valid addresses are handled like the
\* same addresses joined by commas: same validation result, the same
\* ordered recipient list for the send, and no failure before dispatch.
C9_ArrayHandledLikeString ==
    (Completion /\ pc # "start" /\ ValidArray(body)) =>
        /\ validate(body).outcome = validate(Joined(body)).outcome
        /\ emails = validate(Joined(body)).emails
        /\ (pc = "done" /\ ~Truthy(body.f.generatePdf)) => calls.send = 1

\* C10: every 200 of the send-completion-email POST carries success:true,
\* emailSent:true and a boolean pdfAttached, true exactly when the send was
\* called with a PDF attachment (false when generatePdf is false or omitted).
C10_SuccessShape ==
    (Completion /\ Returned200) =>
        /\ {"success", "emailSent", "pdfAttached"} \subseteq DOMAIN response.json
        /\ response.json.success = TRUE
        /\ response.json.emailSent = TRUE
        /\ response.json.pdfAttached.t = "boolean"
        /\ response.json.pdfAttached.v = "true"
              <=> sendLog[Len(sendLog)].attachments.t = "array"

\* C11: every failure response (400 or 500) of every POST handler is a JSON
\* body with both an error summary and a details field.
C11_FailureHasErrorAndDetails ==
    response.status \in {400, 500} =>
        {"error", "details"} \subseteq DOMAIN response.json

\* the value of a response header, "" when the header is not set
Header(r, name) ==
    IF \E h \in r.headers : h[1] = name
    THEN (CHOOSE h \in r.headers : h[1] = name)[2] ELSE ""

\* C13: every response of every handler (the 200, 400 and 500 of the POST
\* handlers and the OPTIONS preflight) carries Access-Control-Allow-Origin
\* "*", the allowed methods POST and OPTIONS and the allowed header
\* Content-Type.
C13_EveryResponseHasCors ==
    response.status # 0 =>
        /\ Header(response, "Access-Control-Allow-Origin") = "*"
        /\ Header(response, "Access-Control-Allow-Methods") = "POST, OPTIONS"
        /\ Header(response, "Access-Control-Allow-Headers")
              \in {"Content-Type", "Content-Type, Authorization"}

\* a provider send threw or returned an error result
SendFailed ==
    \E i \in 1..Len(sendLog) : sendLog[i].threw \/ sendLog[i].result.error # "null"

\* the attempts of the four awaited external operations
Attempts == <<calls.launch, calls.setContent, calls.pdf, calls.send>>

\* C15: no automatic retries: within one request to the send-completion-email
\* POST each of browser launch, content load, PDF export and provider send is
\* attempted at most once, and once one of them has failed or timed out none
\* of them is attempted again.
C15_NoRetries ==
    [][Completion =>
          /\ \A k \in 1..4 : Attempts'[k] <= 1
          /\ (RenderFailed \/ SendFailed) => Attempts' = Attempts]_vars

\* the content load timed out and the request ended with no export and no send
C15_Witness ==
    /\ Completion /\ pc = "done" /\ steps.setContent = "threw"
    /\ calls.setContent = 1 /\ calls.pdf = 0 /\ calls.send = 0

\* C16: the renderer is released before dispatch begins: when the provider
\* send is invoked, a browser launched for the request has already had close
\* invoked.
C16_ClosedBeforeSend ==
    Completion =>
        /\ (pc = "send" /\ BrowserLaunched) => calls.close >= 1
        /\ \A i \in 1..Len(sendLog) : ~sendLog[i].open

\* a send was made after a render, with the browser closed once before it
C16_Witness ==
    /\ Completion /\ BrowserLaunched /\ Len(sendLog) = 1
    /\ sendLog[1].attachments.t = "array" /\ sendLog[1].closed = 1

\* Base64 read off the bits: the bytes as one bit string, zero-filled to whole
\* groups of six, one letter per group, "=" up to a multiple of four letters
BitAt(buf, k) ==
    IF k > 8 * Len(buf) THEN 0
    ELSE (buf[(k - 1) \div 8 + 1] \div 2 ^ (7 - ((k - 1) % 8))) % 2

Sextet(buf, j) ==
    32 * BitAt(buf, 6 * j - 5) + 16 * BitAt(buf, 6 * j - 4)
    + 8 * BitAt(buf, 6 * j - 3) + 4 * BitAt(buf, 6 * j - 2)
    + 2 * BitAt(buf, 6 * j - 1) + BitAt(buf, 6 * j)

Base64Text(buf) ==
    LET letters == (8 * Len(buf) + 5) \div 6
        padded == 4 * ((letters + 3) \div 4)
    IN  ToStr([j \in 1..padded |->
                  IF j <= letters THEN Base64Alphabet[Sextet(buf, j) + 1]
                  ELSE "="])

\* C17: a 200 of the send-completion-email POST is returned only if the
\* provider send was invoked exactly once, returned without throwing and
\* reported no error; and when generatePdf was true, only if that send
\* carried exactly one attachment whose content is the base64 of a non-empty
\* buffer beginning with %PDF.
C17_SuccessOnlyAfterGoodSend ==
    (Completion /\ Returned200) =>
        /\ Len(sendLog) = 1 /\ calls.send = 1
        /\ ~sendLog[1].threw /\ sendLog[1].result.error = "null"
        /\ body.f.generatePdf = JsBoolean("true") =>
              /\ sendLog[1].attachments.t = "array"
              /\ Len(sendLog[1].attachments.v) = 1
              /\ steps.pdf = "ok" /\ Len(pdfBuffer) > 0 /\ ~LacksMagic(pdfBuffer)
              /\ sendLog[1].attachments.v[1].content = Base64Text(pdfBuffer)

\* a 200 after a send that carried the encoded PDF
C17_Witness ==
    /\ Completion /\ Returned200 /\ body.f.generatePdf = JsBoolean("true")
    /\ pdfBuffer = <<37, 80, 68, 70, 45>>
    /\ sendLog[1].attachments.v[1].content = "JVBERi0="

\* C18: error classification follows the failing stage: a 500 "Email send
\* failed" is returned only when the provider send was attempted and failed,
\* a 500 "Failed to generate PDF" only when a render step failed; a failure
\* before dispatch that is no render failure is never reported as "Email send
\* failed".
C18_ErrorNamesFailingStage ==
    (Completion /\ response.status = 500) =>
        /\ response.json.error = "Email send failed" =>
              calls.send >= 1 /\ SendFailed
        /\ response.json.error = "Failed to generate PDF" => RenderFailed

-----------------------------------------------------------------------------
(* The attachment file name: the handler at page.pdf() for subjects of every
   shape, among them subjects longer than the file name limit *)

\* longest tail of freely chosen characters of a subject
MaxSubjectTail == 3

SubjectAlphabet == {"a", "Z", "7", " ", "\t", "!", "-"}

\* the subject starts with this many "x"
PadLengths == {0, FilenameLimit - 1, FilenameLimit}

FilenameSubjects ==
    { [i \in 1..n |-> "x"] \o tail :
        n \in PadLengths,
        tail \in UNION {[1..k -> SubjectAlphabet] : k \in 0..MaxSubjectTail} }
    \ {<<>>}

\* the handler after validation, launch, page and content load went well
InitFilename ==
    /\ route = "completion"
    /\ body \in {[kind |-> "object",
                  f |-> [NoFields EXCEPT !.email = JsString(AddrA),
                                         !.subject = JsString(s),
                                         !.html = JsString(<<"<", "p", ">">>),
                                         !.generatePdf = JsBoolean("true")]] :
                    s \in FilenameSubjects}
    /\ isDev = FALSE
    /\ pc = "pdf"
    /\ browser = 1
    /\ emails = <<AddrA>>
    /\ attachments = <<>>
    /\ pdfError = NoError
    /\ error = NoError
    /\ pending = NoResponse
    /\ response = NoResponse
    /\ calls = [NoCalls EXCEPT !.launch = 1, !.newPage = 1, !.setContent = 1]
    /\ sendLog = <<>>
    /\ adminResult = NoResult
    /\ steps = [NoSteps EXCEPT !.launch = "ok", !.newPage = "ok",
                               !.setContent = "ok"]
    /\ pdfBuffer = <<>>
    /\ handlers = NoHandlers
    /\ instances = <<>>

NextFilename == POST_pdf

SpecFilename == InitFilename /\ [][NextFilename]_vars

\* The name as the claim words it: keep the allowed characters, turn each run
\* of whitespace into one underscore, keep at most 50 characters, fall back on
\* "document", append ".pdf".
RunStarts(k) ==
    SelectSeq([i \in 1..Len(k) |-> i],
              LAMBDA i : k[i] \notin Whitespace \/ i = 1 \/ k[i - 1] \notin Whitespace)

Underscored(k) ==
    LET at == RunStarts(k)
    IN  [j \in 1..Len(at) |-> IF k[at[j]] \in Whitespace THEN "_" ELSE k[at[j]]]

ClaimedFilename(s, allowed) ==
    LET u == Underscored(SelectSeq(s, LAMBDA c : c \in allowed))
        stem == [i \in 1..(IF Len(u) < 50 THEN Len(u) ELSE 50) |-> u[i]]
    IN  (IF stem = <<>> THEN "document" ELSE ToStr(stem)) \o ".pdf"

\* C12 as stated: the name is the subject with every character outside
\* [A-Za-z0-9 -] removed (a tab or newline too), then each run of whitespace
\* replaced by one underscore, cut to 50 characters, "document" if empty,
\* with ".pdf" appended.
C12_FilenameAsStated ==
    attachments # <<>> =>
        attachments[1].filename =
            ClaimedFilename(body.f.subject.v, Letters \cup Digits \cup {" ", "-"})

\* C12 as amended: the characters kept are the letters, the digits, "-" and
\* every whitespace character (tab and newline included), so a tab or newline
\* ends up in an underscore; the stem is non-empty and at most 50 characters.
C12_FilenameKeepsAllWhitespace ==
    attachments # <<>> =>
        /\ attachments[1].filename =
              ClaimedFilename(body.f.subject.v,
                              Letters \cup Digits \cup Whitespace \cup {"-"})
        /\ Len(attachments[1].filename) \in 5..54

\* a subject with a tab between letters, and one cut at 50 characters
C12_Witness ==
    /\ attachments # <<>>
    /\ body.f.subject.v = <<"a", "\t", "Z">>
    /\ attachments[1].filename = "a_Z.pdf"

C12_WitnessCut ==
    /\ attachments # <<>>
    /\ Len(body.f.subject.v) = 53
    /\ Len(attachments[1].filename) = 54

-----------------------------------------------------------------------------
(* Concurrent requests: several invocations of POST with generatePdf set are
   under way at once. JavaScript runs each invocation up to its next await,
   so one action is one stretch of the handler between two awaits, taken by
   one invocation; the actions of different invocations interleave freely.
   Only the state the invocations could share is kept: the browsers. *)

\* how many invocations are under way at once
NumInvocations == 2

Invocations == 1..NumInvocations

\* the variables of the single request, idle here
single == <<route, body, pc, browser, emails, attachments, pdfError, error,
            pending, response, calls, sendLog, adminResult, isDev, steps,
            pdfBuffer>>

\* lines 10-48: what launch() resolves to, a browser nobody has used yet
NewInstance(i) ==
    [launchedBy |-> i, openedBy |-> {}, loadedBy |-> {}, exportedBy |-> {},
     closedBy |-> {}]

\* a call of invocation i on browser b (0 = null: nothing to call)
Touch(b, op, i) ==
    IF b = 0 THEN instances
    ELSE [instances EXCEPT ![b] = [@ EXCEPT ![op] = @ \cup {i}]]

\* faulty variant: `browser` declared outside POST, one binding for all
browserOfModule(i) == Len(instances)

\* line 51: `let browser = null` inside POST, one binding per invocation
browserOf(i) == handlers[i].browser

\* every invocation has validated its body and stands before getBrowser()
InitConcurrent ==
    /\ route = "completion"
    /\ body = [kind |-> "object",
               f |-> [NoFields EXCEPT !.email = JsString(AddrA),
                                      !.subject = JsString(<<"D", "o", "n", "e">>),
                                      !.html = JsString(<<"<", "p", ">">>),
                                      !.generatePdf = JsBoolean("true")]]
    /\ isDev \in BOOLEAN
    /\ pc = "start"
    /\ browser = 0
    /\ emails = <<>>
    /\ attachments = <<>>
    /\ pdfError = NoError
    /\ error = NoError
    /\ pending = NoResponse
    /\ response = NoResponse
    /\ calls = NoCalls
    /\ sendLog = <<>>
    /\ adminResult = NoResult
    /\ steps = NoSteps
    /\ pdfBuffer = <<>>
    /\ handlers = [i \in Invocations |->
                     [pc |-> "launch", browser |-> 0, page |-> 0, held |-> FALSE]]
    /\ instances = <<>>

\* line 101: browser = await getBrowser()
Handler_getBrowser(i) ==
    /\ handlers[i].pc = "launch"
    /\ \E ok \in BOOLEAN :
          IF ok
          THEN /\ instances' = Append(instances, NewInstance(i))
               /\ handlers' = [handlers EXCEPT ![i].browser = Len(instances) + 1,
                                               ![i].pc = "newPage"]
          ELSE /\ instances' = instances
               /\ handlers' = [handlers EXCEPT ![i].pc = "pdfCatch"]
    /\ UNCHANGED single

\* lines 105-112: const page = await browser.newPage()
Handler_newPage(i) ==
    /\ handlers[i].pc = "newPage"
    /\ instances' = Touch(browserOf(i), "openedBy", i)
    /\ \E ok \in BOOLEAN :
          handlers' = IF ok /\ browserOf(i) # 0
                      THEN [handlers EXCEPT ![i].page = browserOf(i),
                                            ![i].pc = "setContent"]
                      ELSE [handlers EXCEPT ![i].pc = "pdfCatch"]
    /\ UNCHANGED single

\* lines 173-181: await page.setContent(..)
Handler_setContent(i) ==
    /\ handlers[i].pc = "setContent"
    /\ instances' = Touch(handlers[i].page, "loadedBy", i)
    /\ \E ok \in BOOLEAN :
          handlers' = [handlers EXCEPT ![i].pc = IF ok THEN "pdf" ELSE "pdfCatch"]
    /\ UNCHANGED single

\* lines 184-225: await page.pdf(..) and the checks (ok: all of them passed)
Handler_pdf(i) ==
    /\ handlers[i].pc = "pdf"
    /\ instances' = Touch(handlers[i].page, "exportedBy", i)
    /\ \E ok \in BOOLEAN :
          handlers' = [handlers EXCEPT ![i].pc = IF ok THEN "finally" ELSE "pdfCatch"]
    /\ UNCHANGED single

\* lines 227-244: the inner catch closes the browser and holds the 500
Handler_pdfCatch(i) ==
    /\ handlers[i].pc = "pdfCatch"
    /\ instances' = Touch(browserOf(i), "closedBy", i)
    /\ handlers' = [handlers EXCEPT ![i].held = TRUE, ![i].pc = "finally"]
    /\ UNCHANGED single

\* lines 245-251: the finally block
Handler_finally(i) ==
    /\ handlers[i].pc = "finally"
    /\ instances' = Touch(browserOf(i), "closedBy", i)
    /\ handlers' = [handlers EXCEPT
                      ![i].pc = IF handlers[i].held THEN "done" ELSE "send"]
    /\ UNCHANGED single

\* lines 262-289: await resend.emails.send(..)
Handler_send(i) ==
    /\ handlers[i].pc = "send"
    /\ \E ok \in BOOLEAN :
          handlers' = [handlers EXCEPT ![i].pc = IF ok THEN "done" ELSE "outerCatch"]
    /\ UNCHANGED <<single, instances>>

\* lines 291-313: the outer catch
Handler_outerCatch(i) ==
    /\ handlers[i].pc = "outerCatch"
    /\ instances' = Touch(browserOf(i), "closedBy", i)
    /\ handlers' = [handlers EXCEPT ![i].pc = "done"]
    /\ UNCHANGED single

NextConcurrent ==
    \E i \in Invocations :
        \/ Handler_getBrowser(i)
        \/ Handler_newPage(i)
        \/ Handler_setContent(i)
        \/ Handler_pdf(i)
        \/ Handler_pdfCatch(i)
        \/ Handler_finally(i)
        \/ Handler_send(i)
        \/ Handler_outerCatch(i)

SpecConcurrent == InitConcurrent /\ [][NextConcurrent]_vars

\* C14: whatever the interleaving of the concurrent invocations, a browser gets
\* pages, content, exports and close() calls only from the invocation that
\* launched it.
C14_BrowserStaysWithItsLauncher ==
    \A b \in 1..Len(instances) :
        (instances[b].openedBy \cup instances[b].loadedBy
            \cup instances[b].exportedBy \cup instances[b].closedBy)
          \subseteq {instances[b].launchedBy}

\* invocation 2 launched first and has closed its browser while invocation 1,
\* launched later, is still between loading and exporting
C14_Witness ==
    /\ Len(instances) = 2
    /\ instances[1].launchedBy = 2
    /\ instances[1].exportedBy = {2} /\ instances[1].closedBy = {2}
    /\ instances[2].launchedBy = 1
    /\ instances[2].loadedBy = {1} /\ instances[2].closedBy = {}
    /\ handlers[1].pc = "pdf"

====
